---- MODULE Spec2Model ----
(***************************************************************************)
(* A model of the Adv2 reader (Adv2/Adv2File.py) on top of the ctypes      *)
(* binding (Adv2/AdvLib.py) to the native ADV library.                     *)
(*                                                                         *)
(* The native library keeps ONE implicit "current open file" and ONE       *)
(* "current frame": no call of the binding passes a file handle.  The      *)
(* Python objects (Adv2reader) keep their own copies of the descriptor,    *)
(* one AdvFrameInfo object allocated in __init__, and the status schema.   *)
(***************************************************************************)
EXTENDS Integers, Sequences, FiniteSets, TLC

VARIABLES
    libFile,     \* the file the native library has open, or NoFile
    libFrame,    \* the frame the library has loaded (status source), or NoFrame
    readers,     \* the Adv2reader objects: slot -> fields, or NoReader
    last,        \* outcome of the latest call made by the client
    held,        \* an earlier getFrame outcome the client has kept
    crashed,     \* the process died (native write past a ctypes buffer)
    disk,        \* the files on disk: name -> what the library finds in it
    threads      \* client threads that are inside a getFrame call on reader 1

vars == <<libFile, libFrame, readers, last, held, crashed, disk, threads>>

----------------------------------------------------------------------------
(* Bounds of the model.                                                    *)

\* reader slots 1..NumReaders: how many Adv2reader objects the client builds
NumReaders == 2
\* frame numbers requested range over -1..MaxFrameNo
MaxFrameNo == 1

Readers == 1..NumReaders
FrameNumbers == -1..MaxFrameNo

----------------------------------------------------------------------------
(* 32-bit result codes.  A code 0xHHHHLLLL is the pair <<0xHHHH, 0xLLLL>>  *)
(* (ret_val & RET_VAL_MASK is unsigned, and exceeds the integers of TLC    *)
(* when taken as one number).                                              *)

S_OK == <<0, 0>>
E_ADV_IO_ERROR == <<33024, 2>>                         \* 0x81000002
E_ADV_INVALID_STATUS_TAG_ID == <<33024, 4098>>         \* 0x81001002
E_ADV_INVALID_STATUS_TAG_TYPE == <<33024, 4099>>       \* 0x81001003
E_ADV_STATUS_TAG_NOT_FOUND_IN_FRAME == <<33024, 4100>> \* 0x81001004
E_ADV_FRAME_STATUS_NOT_LOADED == <<33024, 4101>>       \* 0x81001005
E_ADV_FRAME_MISSING_FROM_INDEX == <<33024, 4116>>      \* 0x81001014
E_ADV_FRAME_CORRUPTED == <<33024, 4117>>               \* 0x81001015
E_ADV_FILE_NOT_OPEN == <<33024, 4118>>                 \* 0x81001016
E_ADV_NOT_AN_ADV_FILE == <<33024, 8193>>               \* 0x81002001
E_ADV_VERSION_NOT_SUPPORTED == <<33024, 8194>>         \* 0x81002002
S_ADV_TAG_REPLACED == <<28928, 1>>                     \* 0x71000001
E_FAIL == <<32768, 16389>>                             \* 0x80004005

\* small results (file versions) as codes
Ver(n) == <<0, n>>

\* a > b on 32-bit unsigned codes
CodeGreater(a, b) == \/ a[1] > b[1]
                     \/ a[1] = b[1] /\ a[2] > b[2]

\* Python truthiness of an int
Truthy(code) == code # S_OK

HexDigit == <<"0", "1", "2", "3", "4", "5", "6", "7",
              "8", "9", "A", "B", "C", "D", "E", "F">>

Hex4(n) == HexDigit[((n \div 4096) % 16) + 1] \o HexDigit[((n \div 256) % 16) + 1]
           \o HexDigit[((n \div 16) % 16) + 1] \o HexDigit[(n % 16) + 1]

\* f'{AdvResult:08X}'
Hex8(code) == Hex4(code[1]) \o Hex4(code[2])

\* AdvError.error_dict: code -> <<enum name, human readable text>>
error_dict ==
    [c \in {S_OK, E_ADV_IO_ERROR, E_ADV_INVALID_STATUS_TAG_ID,
            E_ADV_INVALID_STATUS_TAG_TYPE, E_ADV_STATUS_TAG_NOT_FOUND_IN_FRAME,
            E_ADV_FRAME_STATUS_NOT_LOADED, E_ADV_FRAME_MISSING_FROM_INDEX,
            E_ADV_FRAME_CORRUPTED, E_ADV_FILE_NOT_OPEN, E_ADV_NOT_AN_ADV_FILE,
            E_ADV_VERSION_NOT_SUPPORTED, S_ADV_TAG_REPLACED, E_FAIL} |->
        CASE c = S_OK -> <<"S_OK", "Success.">>
          [] c = E_ADV_IO_ERROR -> <<"E_ADV_IO_ERROR", "An I/O error has occurred.">>
          [] c = E_ADV_INVALID_STATUS_TAG_ID ->
                 <<"E_ADV_INVALID_STATUS_TAG_ID", "Unknown status TagId">>
          [] c = E_ADV_INVALID_STATUS_TAG_TYPE ->
                 <<"E_ADV_INVALID_STATUS_TAG_TYPE",
                   "The type of the status TagId doesnt match the currently called method.">>
          [] c = E_ADV_STATUS_TAG_NOT_FOUND_IN_FRAME ->
                 <<"E_ADV_STATUS_TAG_NOT_FOUND_IN_FRAME",
                   "The requested status TagId is not present in the current frame.">>
          [] c = E_ADV_FRAME_STATUS_NOT_LOADED ->
                 <<"E_ADV_FRAME_STATUS_NOT_LOADED",
                   "No status has been loaded. Call GetFramePixels() first.">>
          [] c = E_ADV_FRAME_MISSING_FROM_INDEX ->
                 <<"E_ADV_FRAME_MISSING_FROM_INDEX",
                   "The requested frame cannot be located in the index. The file may be have been corrupted. Try rebuilding it.">>
          [] c = E_ADV_FRAME_CORRUPTED ->
                 <<"E_ADV_FRAME_CORRUPTED", "The frame binary data appears to be corrupted.">>
          [] c = E_ADV_FILE_NOT_OPEN ->
                 <<"E_ADV_FILE_NOT_OPEN", "File system file is not open.">>
          [] c = E_ADV_NOT_AN_ADV_FILE ->
                 <<"E_ADV_NOT_AN_ADV_FILE", "This is not a valid ADV file.">>
          [] c = E_ADV_VERSION_NOT_SUPPORTED ->
                 <<"E_ADV_VERSION_NOT_SUPPORTED", "ADV version not supported.">>
          [] c = S_ADV_TAG_REPLACED ->
                 <<"S_ADV_TAG_REPLACED", "An existing tag with the same name has been replaced.">>
          [] c = E_FAIL -> <<"E_FAIL", "Error.">>]

\* the enum name instead of the human readable text (kind other than 'human')
ResolveErrorMessageEnumName(AdvResult) ==
    IF AdvResult \in DOMAIN error_dict
    THEN error_dict[AdvResult][1]
    ELSE "0x" \o Hex8(AdvResult) \o " is not a defined AdvResult"

\* AdvError.ResolveErrorMessage(AdvResult, kind='human')
ResolveErrorMessage(AdvResult) ==
    IF AdvResult \in DOMAIN error_dict
    THEN error_dict[AdvResult][2]
    ELSE "0x" \o Hex8(AdvResult) \o " is not a defined AdvResult"

----------------------------------------------------------------------------
(* Timestamp rendering: datetime(2010, 1, 1) + timedelta(microseconds=u).  *)

EpochYear == 2010

Digit == <<"0", "1", "2", "3", "4", "5", "6", "7", "8", "9">>

\* f'{n:0wd}' for 0 <= n < 10^w
RECURSIVE Pad(_, _)
Pad(n, w) == IF w = 0 THEN "" ELSE Pad(n \div 10, w - 1) \o Digit[(n % 10) + 1]

IsLeap(y) == (y % 4 = 0 /\ y % 100 # 0) \/ y % 400 = 0

DaysInMonth(y, m) ==
    IF m = 2 THEN (IF IsLeap(y) THEN 29 ELSE 28)
    ELSE IF m \in {4, 6, 9, 11} THEN 30 ELSE 31

DaysInYear(y) == IF IsLeap(y) THEN 366 ELSE 365

\* the calendar date n days from the first day of month m of year y (n may
\* be negative)
RECURSIVE DateFrom(_, _, _)
DateFrom(y, m, n) ==
    IF n >= 0 /\ n < DaysInMonth(y, m) THEN [year |-> y, month |-> m, day |-> n + 1]
    ELSE LET to == IF n < 0
                   THEN IF m = 1 THEN <<y - 1, 12, n + 31>>
                        ELSE <<y, m - 1, n + DaysInMonth(y, m - 1)>>
                   ELSE IF m = 1 /\ n >= DaysInYear(y) THEN <<y + 1, 1, n - DaysInYear(y)>>
                   ELSE IF m = 12 THEN <<y + 1, 1, n - 31>>
                   ELSE <<y, m + 1, n - DaysInMonth(y, m)>>
         IN  DateFrom(to[1], to[2], to[3])

(* Durations in nanoseconds exceed the integers of TLC; a duration is held *)
(* as <<days, hours, minutes, seconds, ms, us, ns>>.                       *)

\* the number of units of each place that make one of the place before it
Radix == <<1, 24, 60, 60, 1000, 1000, 1000>>

\* 2^32 ns and 2^48 ns
Pow32Nanos == <<0, 0, 0, 4, 294, 967, 296>>
Pow48Nanos == <<3, 6, 11, 14, 976, 710, 656>>

Nanos(n) == <<0, 0, 0, 0, 0, 0, n>>

Scaled(v, k) == [i \in 1..7 |-> v[i] * k]

Plus(u, v) == [i \in 1..7 |-> u[i] + v[i]]

\* every place but the days brought into [0, radix), carrying by floor
\* division from place i upwards
RECURSIVE CarriedFrom(_, _)
CarriedFrom(v, i) ==
    IF i = 1 THEN v
    ELSE CarriedFrom([v EXCEPT ![i] = v[i] % Radix[i],
                               ![i - 1] = v[i - 1] + (v[i] \div Radix[i])], i - 1)

Carried(v) == CarriedFrom(v, 7)

\* timedelta(microseconds=ns // 1000): days, seconds in [0, 86400),
\* microseconds in [0, 10^6)
Timedelta(v) ==
    LET c == Carried(v)
    IN  [days |-> c[1], seconds |-> c[2] * 3600 + c[3] * 60 + c[4],
         microseconds |-> c[5] * 1000 + c[6]]

\* ts = datetime(2010, 1, 1) + timedelta
EpochPlus(td) ==
    LET date == DateFrom(EpochYear, 1, td.days)
    IN  [year |-> date.year, month |-> date.month, day |-> date.day,
         hour |-> td.seconds \div 3600, minute |-> (td.seconds \div 60) % 60,
         second |-> td.seconds % 60, microsecond |-> td.microseconds]

\* f'{ts.year:04d}-{ts.month:02d}-{ts.day:02d}'
FormatDate(ts) == Pad(ts.year, 4) \o "-" \o Pad(ts.month, 2) \o "-" \o Pad(ts.day, 2)

\* f'[{ts.hour:02d}:{ts.minute:02d}:{ts.second:02d}.{ts.microsecond:06d}]'
FormatTime(ts) == "[" \o Pad(ts.hour, 2) \o ":" \o Pad(ts.minute, 2) \o ":"
                  \o Pad(ts.second, 2) \o "." \o Pad(ts.microsecond, 6) \o "]"

MidExposureUsecs(lo, hi, exposure) ==
    Timedelta(Plus(Carried(Plus(Scaled(Pow48Nanos, hi \div 65536),
                                Scaled(Pow32Nanos, hi % 65536))),
                   Carried(Nanos(lo))))

\* timedelta(microseconds=usecs) of the start of exposure:
\* datetime64 = Lo + (Hi << 32); datetime64 -= Exposure // 2;
\* usecs = datetime64 // 1000
StartOfExposureUsecs(lo, hi, exposure) ==
    Timedelta(Plus(Plus(Carried(Plus(Scaled(Pow48Nanos, hi \div 65536),
                                     Scaled(Pow32Nanos, hi % 65536))),
                        Carried(Nanos(lo))),
                   Carried(Nanos(0 - (exposure \div 2)))))

----------------------------------------------------------------------------
(* The files on disk (the environment).  Each file fixes what the native   *)
(* library answers for it; no operation of the reader writes to a file.    *)

StreamIds == {"Main", "Calibration"}

Adv2TagTypes == {"Int8", "Int16", "Int32", "Int64", "Real", "UTF8String"}

NumericTagTypes == {"Int8", "Int16", "Int32", "Int64", "Real"}

\* AdvFileInfo() as AdvOpenFile leaves it when the library fills nothing in
ZeroFileInfo ==
    [Width |-> 0, Height |-> 0, CountMainFrames |-> 0, CountCalibrationFrames |-> 0,
     SystemMetadataTagsCount |-> 0, UserMetadataTagsCount |-> 0,
     IsColourImage |-> FALSE, StatusTagsCount |-> 0]

\* the frame-info block as packed before the library call: all zero
ZeroFrameBlock ==
    [StartTicksLo |-> 0, StartTicksHi |-> 0,
     UtcMidExposureTimestampLo |-> 0, UtcMidExposureTimestampHi |-> 0,
     Exposure |-> 0, Gain |-> 0, ImageLayoutId |-> 0, RawDataBlockSize |-> 0]

FrameBlock(ticks, lo, hi, exposure, gain, size) ==
    [StartTicksLo |-> ticks, StartTicksHi |-> 0,
     UtcMidExposureTimestampLo |-> lo, UtcMidExposureTimestampHi |-> hi,
     Exposure |-> exposure, Gain |-> gain, ImageLayoutId |-> 1, RawDataBlockSize |-> size]

Tag(type, name) == [type |-> type, name |-> name, lookup |-> S_OK]
Present(v) == [present |-> TRUE, value |-> v]
Absent == [present |-> FALSE, value |-> 0]

SchemaA == <<Tag("Int8", "Sats"), Tag("Int16", "Gain16"), Tag("Int32", "Cnt"),
             Tag("Int64", "Ticks"), Tag("Real", "Temp"), Tag("UTF8String", "Msg"),
             Tag("Int64", "SystemTime")>>

InfoA == [ZeroFileInfo EXCEPT !.Width = 2, !.Height = 1, !.CountMainFrames = 2,
                              !.StatusTagsCount = 7,
                              !.SystemMetadataTagsCount = 2, !.UserMetadataTagsCount = 1]

FramesA ==
    [Main |-> <<
        \* mid exposure 1.5 ms after the epoch, exposure 1 ms; every tag present
        [block |-> FrameBlock(100, 1500000, 0, 1000000, 3, 4),
         pixels |-> <<10, 70000>>,
         tags |-> <<Present(7), Present(300), Present(70000), Present(5), Present(2),
                    Present("ok"), Present(2147483647)>>],
        \* no timestamp at all (Lo = Hi = 0), no status tag in the frame
        [block |-> FrameBlock(200, 0, 0, 0, 4, 4),
         pixels |-> <<0, 65535>>,
         tags |-> <<Absent, Absent, Absent, Absent, Absent, Absent, Absent>>] >>,
     Calibration |-> << >>]

\* the schema has an unused slot (empty name) before the named tag
SchemaB == <<Tag("Int16", ""), Tag("Int16", "Gain")>>

InfoB == [ZeroFileInfo EXCEPT !.Width = 1, !.Height = 3, !.CountMainFrames = 1,
                              !.CountCalibrationFrames = 1, !.StatusTagsCount = 2,
                              !.SystemMetadataTagsCount = 1, !.UserMetadataTagsCount = 1]

FramesB ==
    [Main |-> <<
        \* no timestamp, but an exposure of 4 us
        [block |-> FrameBlock(300, 0, 0, 4000, 1, 6),
         pixels |-> <<21, 22, 23>>,
         tags |-> <<Present(11), Present(22)>>] >>,
     Calibration |-> <<
        \* exposure of 40000001 ns that started in the last microsecond of
        \* 2024-02-29 and has its middle on 2024-03-01
        [block |-> FrameBlock(10, 1116482815, 104063004, 40000001, 2, 6),
         pixels |-> <<31, 32, 33>>,
         tags |-> <<Absent, Present(44)>>] >>]

\* an unused Int16 slot before a string tag
SchemaG == <<Tag("Int16", ""), Tag("UTF8String", "Note")>>

InfoG == [ZeroFileInfo EXCEPT !.Width = 1, !.Height = 1, !.CountMainFrames = 1,
                              !.StatusTagsCount = 2]

FramesG ==
    [Main |-> << [block |-> FrameBlock(1, 5000, 0, 0, 1, 2),
                  pixels |-> <<77>>,
                  tags |-> <<Present(3), Present("n")>>] >>,
     Calibration |-> << >>]

\* repeated names within the system table and across the two tables; the
\* descriptor counts one user entry more than the library can read
InfoGM == [InfoG EXCEPT !.SystemMetadataTagsCount = 3, !.UserMetadataTagsCount = 3]

\* the library fails to look up the second status tag
SchemaS == <<Tag("Int8", "Sats"), [type |-> "Int16", name |-> "Bad", lookup |-> E_FAIL]>>

NoFrames == [Main |-> << >>, Calibration |-> << >>]

\* a 32-bit word 0xHHHHLLLL of the file as the pair <<0xHHHH, 0xLLLL>>
Word(n) == <<n \div 65536, n % 65536>>

\* one six-word index slot
Slot(ticksLo, ticksHi, offsetLo, offsetHi, bytes) ==
    <<ticksLo, ticksHi, offsetLo, offsetHi, bytes, Word(0)>>

\* ticks 0x7FFFFFF0 and 0x80000010: the low half passes 2^31 between the frames
IndexA ==
    [Main |-> << Slot(<<32767, 65520>>, Word(0), Word(1000), Word(0), Word(4)),
                 Slot(<<32768, 16>>, Word(0), Word(1100), Word(0), Word(4)) >>,
     Calibration |-> << >>]

\* main: ticks 0xFFFFFFF0; calibration: ticks 2^32 + 16, in a file larger
\* than 2 GB (offset 0x80000400)
IndexB ==
    [Main |-> << Slot(<<65535, 65520>>, Word(0), Word(1000), Word(0), Word(6)) >>,
     Calibration |-> << Slot(Word(16), Word(1), <<32768, 1024>>, Word(0), Word(6)) >>]

IndexG ==
    [Main |-> << Slot(Word(100), Word(0), Word(5000), Word(2), Word(2)) >>,
     Calibration |-> << >>]

Indexed(file, index) == [index |-> index] @@ file

File(exists, probe, open, info, schema, frames, sys, user) ==
    [exists |-> exists, probe |-> probe, open |-> open, info |-> info,
     schema |-> schema, frames |-> frames, sysMeta |-> sys, userMeta |-> user]

\* a file the library never gets to open as version 2
Unopened(exists, probe, open) ==
    File(exists, probe, open, ZeroFileInfo, << >>, NoFrames, << >>, << >>)

OnDisk ==
    ("a.adv" :> Indexed(File(TRUE, Ver(2), Ver(2), InfoA, SchemaA, FramesA,
                             <<(<<"BITPIX", "16">>), (<<"CAMERA", "sys">>)>>,
                             <<(<<"CAMERA", "user">>)>>), IndexA))
    @@ ("b.adv" :> Indexed(File(TRUE, Ver(2), Ver(2), InfoB, SchemaB, FramesB,
                                <<(<<"BITPIX", "8">>)>>, <<(<<"OBSERVER", "b">>)>>),
                           IndexB))
    @@ ("gap.adv" :> Indexed(File(TRUE, Ver(2), Ver(2), InfoGM, SchemaG, FramesG,
                                  <<(<<"DUP", "1">>), (<<"DUP", "2">>), (<<"CAM", "s">>)>>,
                                  <<(<<"CAM", "u">>), (<<"OBS", "x">>)>>), IndexG))
    @@ ("colour.adv" :> File(TRUE, Ver(2), Ver(2), [InfoA EXCEPT !.IsColourImage = TRUE],
                             SchemaA, FramesA, << >>, << >>))
    @@ ("colour_b.adv" :> File(TRUE, Ver(2), Ver(2), [InfoG EXCEPT !.IsColourImage = TRUE],
                               SchemaS, FramesG, << >>, << >>))
    @@ ("schema.adv" :> File(TRUE, Ver(2), Ver(2), InfoG, SchemaS, FramesG, << >>, << >>))
    @@ ("missing.adv" :> Unopened(FALSE, Ver(0), E_FAIL))
    @@ ("notfstf.adv" :> Unopened(TRUE, Ver(0), Ver(0)))
    @@ ("v1.adv" :> Unopened(TRUE, Ver(1), Ver(1)))
    @@ ("v3.adv" :> Unopened(TRUE, Ver(3), Ver(3)))
    @@ ("probe_err.adv" :> Unopened(TRUE, E_ADV_IO_ERROR, E_ADV_IO_ERROR))
    @@ ("open0.adv" :> Unopened(TRUE, Ver(2), Ver(0)))
    @@ ("open1.adv" :> Unopened(TRUE, Ver(2), Ver(1)))
    @@ ("open3.adv" :> Unopened(TRUE, Ver(2), Ver(3)))
    @@ ("open_err.adv" :> Unopened(TRUE, Ver(2), E_ADV_NOT_AN_ADV_FILE))
    @@ ("open_warn.adv" :> Unopened(TRUE, Ver(2), S_ADV_TAG_REPLACED))

FileNames == DOMAIN OnDisk

NoFile == "(none)"
NoFrame == [loaded |-> FALSE]

----------------------------------------------------------------------------
(* The native library: one current file, one current frame.                *)

\* advDLL.AdvGetFileVersion(fname_ptr) & RET_VAL_MASK
LibGetFileVersion(f) == disk[f].probe

\* advDLL.AdvOpenFile: the result code, the descriptor written to file_info,
\* and the file the library has open afterwards (a new open replaces the
\* current file; a failed open leaves none)
LibOpenFile(f) ==
    LET code == disk[f].open
    IN  [code |-> code,
         info |-> IF code = Ver(2) THEN disk[f].info ELSE ZeroFileInfo,
         file |-> IF code = Ver(2) THEN f ELSE NoFile]

LibFrameCount(file, stream) == Len(disk[file].frames[stream])

\* advDLL.AdvVer2_GetFramePixels on the library's current file
LibGetFramePixels(file, frame, stream, frameNo) ==
    IF file = NoFile
    THEN [code |-> E_ADV_FILE_NOT_OPEN, block |-> ZeroFrameBlock, pixels |-> << >>,
          frame |-> frame]
    ELSE IF frameNo < 0 \/ frameNo >= LibFrameCount(file, stream)
    THEN [code |-> E_ADV_FRAME_MISSING_FROM_INDEX, block |-> ZeroFrameBlock,
          pixels |-> << >>, frame |-> frame]
    ELSE [code |-> S_OK,
          block |-> disk[file].frames[stream][frameNo + 1].block,
          pixels |-> disk[file].frames[stream][frameNo + 1].pixels,
          frame |-> [loaded |-> TRUE, stream |-> stream, frameNo |-> frameNo]]

\* advDLL.AdvVer2_GetStatusTagNameSize / AdvVer2_GetStatusTagInfo
LibGetStatusTagInfo(file, tagId) ==
    IF file = NoFile THEN [code |-> E_ADV_FILE_NOT_OPEN, type |-> "Int8", name |-> ""]
    ELSE IF tagId >= Len(disk[file].schema)
    THEN [code |-> E_ADV_INVALID_STATUS_TAG_ID, type |-> "Int8", name |-> ""]
    ELSE LET t == disk[file].schema[tagId + 1]
         IN  [code |-> t.lookup, type |-> t.type, name |-> t.name]

\* advDLL.AdvVer2_GetStatusTagUInt8 / 16 / 32 / 64 / Real / SizeUTF8String:
\* the value of tag tagId in the library's current frame, read as type
LibGetStatusTag(file, frame, tagId, type) ==
    IF file = NoFile THEN [code |-> E_ADV_FILE_NOT_OPEN, value |-> 0]
    ELSE IF ~frame.loaded THEN [code |-> E_ADV_FRAME_STATUS_NOT_LOADED, value |-> 0]
    ELSE IF tagId >= Len(disk[file].schema)
    THEN [code |-> E_ADV_INVALID_STATUS_TAG_ID, value |-> 0]
    ELSE IF disk[file].schema[tagId + 1].type # type
    THEN [code |-> E_ADV_INVALID_STATUS_TAG_TYPE, value |-> 0]
    ELSE LET t == disk[file].frames[frame.stream][frame.frameNo + 1].tags[tagId + 1]
         IN  IF t.present THEN [code |-> S_OK, value |-> t.value]
             ELSE [code |-> E_ADV_STATUS_TAG_NOT_FOUND_IN_FRAME, value |-> 0]

\* advDLL.AdvVer2_GetTagPairValues: name and value buffers stay empty on error
LibGetTagPairValues(file, table, entryNum) ==
    IF file = NoFile THEN [code |-> E_ADV_FILE_NOT_OPEN, name |-> "", value |-> ""]
    ELSE LET pairs == IF table = "SystemMetaData" THEN disk[file].sysMeta
                      ELSE disk[file].userMeta
         IN  IF entryNum >= Len(pairs) THEN [code |-> E_FAIL, name |-> "", value |-> ""]
             ELSE [code |-> S_OK, name |-> pairs[entryNum + 1][1],
                   value |-> pairs[entryNum + 1][2]]

\* the index record of frame k (from 0) of a stream: ticks-lo, ticks-hi,
\* offset-lo, offset-hi, byte-count and the unused alignment word
IndexRecord(file, stream, k) == disk[file].index[stream][k + 1]

RECURSIVE IndexWords(_, _, _)
IndexWords(file, stream, k) ==
    IF k >= LibFrameCount(file, stream) THEN << >>
    ELSE IndexRecord(file, stream, k) \o IndexWords(file, stream, k + 1)

\* advDLL.AdvVer2_GetIndexEntries: the words the library writes into the
\* two buffers, one record per frame of its current file
LibGetIndexEntries(file) ==
    IF file = NoFile
    THEN [code |-> E_ADV_FILE_NOT_OPEN, main |-> << >>, calib |-> << >>]
    ELSE [code |-> S_OK, main |-> IndexWords(file, "Main", 0),
          calib |-> IndexWords(file, "Calibration", 0)]

----------------------------------------------------------------------------
(* The binding, AdvLib.py.                                                 *)

\* f'{version}' of an unsigned 32-bit value held as a pair of 16-bit halves
RECURSIVE DecStr(_)
DecStr(c) ==
    IF c[1] = 0 /\ c[2] < 10 THEN Digit[c[2] + 1]
    ELSE LET low == (c[1] % 10) * 65536 + c[2]
         IN  DecStr(<<c[1] \div 10, low \div 10>>) \o Digit[(low % 10) + 1]

AdvGetFileVersion(filepath) ==
    IF ~disk[filepath].exists
    THEN [err |-> "Error - cannot find file: " \o filepath, version |-> Ver(0)]
    ELSE IF LibGetFileVersion(filepath) = Ver(0)
    THEN [err |-> "Error - not an FSTF file: " \o filepath, version |-> Ver(0)]
    ELSE [err |-> "", version |-> LibGetFileVersion(filepath)]

\* raises when either library call does not return S_OK
AdvVer2_GetStatusTagInfo(file, tagId) ==
    LET r == LibGetStatusTagInfo(file, tagId)
    IN  IF r.code # S_OK
        THEN [raised |-> ResolveErrorMessage(r.code), type |-> r.type, name |-> ""]
        ELSE [raised |-> "", type |-> r.type, name |-> r.name]

NumericPlaceholderZero(file, frame, tagId, type) ==
    LET r == LibGetStatusTag(file, frame, tagId, type)
    IN  IF r.code # S_OK THEN 0 ELSE r.value

\* AdvVer2_GetStatusTagUInt8, Int16, Int32, Int64, Real: -1 on any error
AdvVer2_GetStatusTagNumeric(file, frame, tagId, type) ==
    LET r == LibGetStatusTag(file, frame, tagId, type)
    IN  IF r.code # S_OK THEN -1 ELSE r.value

\* AdvVer2_GetStatusTagUTF8String: "" when the tag is missing in the frame,
\* an exception on any other error
AdvVer2_GetStatusTagUTF8String(file, frame, tagId) ==
    LET r == LibGetStatusTag(file, frame, tagId, "UTF8String")
    IN  IF r.code # S_OK
        THEN IF r.code = E_ADV_STATUS_TAG_NOT_FOUND_IN_FRAME
             THEN [raised |-> "", value |-> ""]
             ELSE [raised |-> ResolveErrorMessage(r.code), value |-> ""]
        ELSE [raised |-> "", value |-> r.value]

----------------------------------------------------------------------------
(* Adv2reader, Adv2File.py.                                                *)

NoReader == [constructed |-> FALSE]
NoResult == [op |-> "none"]

\* AdvFrameInfo(): the dataclass defaults
NewAdvFrameInfo ==
    [StartTicksLo |-> 0, StartTicksHi |-> 0,
     UtcMidExposureTimestampLo |-> 0, UtcMidExposureTimestampHi |-> 0,
     Exposure |-> 0, DateString |-> "", StartOfExposureTimestampString |-> "",
     Gain |-> 0, ImageLayoutId |-> 0, RawDataBlockSize |-> 0]

\* dict.update({k: v})
DictUpdate(d, k, v) == [x \in (DOMAIN d) \cup {k} |-> IF x = k THEN v ELSE d[x]]

EmptyDict == << >>

VersionAtLeastTwo(version) == version[1] > 0 \/ version[2] >= 2

\* `version == 2`
VersionSupported(version) == version = Ver(2)

ColourIgnored(fileInfo) == FALSE

\* `if fileInfo.IsColourImage:`
ColourRejected(fileInfo) == fileInfo.IsColourImage

\* for tagId in range(fileInfo.StatusTagsCount): ... if tagName: append
RECURSIVE LoadStatusTagInfo(_, _, _, _)
LoadStatusTagInfo(file, count, tagId, acc) ==
    IF tagId >= count THEN [raised |-> "", list |-> acc]
    ELSE LET t == AdvVer2_GetStatusTagInfo(file, tagId)
         IN  IF t.raised # "" THEN [raised |-> t.raised, list |-> acc]
             ELSE LoadStatusTagInfo(file, count, tagId + 1,
                                    IF t.name # "" THEN Append(acc, <<t.type, t.name>>)
                                    ELSE acc)

\* Adv2reader.__init__(filename): the exception raised ("" when none),
\* whether AdvOpenFile was reached, and the object built
Adv2readerInit(filename) ==
    LET probe == AdvGetFileVersion(filename)
        opened == LibOpenFile(filename)
        fileInfo == opened.info
        tags == LoadStatusTagInfo(opened.file, fileInfo.StatusTagsCount, 0, << >>)
        fail(msg, called) == [raised |-> msg, opened |-> called, object |-> NoReader]
    IN  IF ~disk[filename].exists
        THEN fail("Error: cannot find file ... " \o filename, FALSE)
        ELSE IF probe.err # "" THEN fail(probe.err, FALSE)
        ELSE IF ~VersionSupported(probe.version)
        THEN fail("ADV version " \o DecStr(probe.version)
                  \o " is unsupported --- only version 2 is supported", FALSE)
        ELSE IF CodeGreater(opened.code, <<28672, 0>>)
        THEN fail("There was an error opening " \o filename \o ": "
                  \o ResolveErrorMessage(opened.code), TRUE)
        ELSE IF opened.code # Ver(2)
        THEN fail(filename \o " is not an ADV version 2 file", TRUE)
        ELSE IF ColourRejected(fileInfo)
        THEN fail("This file contains color images: not yet supported.", TRUE)
        ELSE IF tags.raised # "" THEN fail(tags.raised, TRUE)
        ELSE [raised |-> "", opened |-> TRUE,
              object |-> [constructed |-> TRUE, file |-> filename,
                          Width |-> fileInfo.Width, Height |-> fileInfo.Height,
                          CountMainFrames |-> fileInfo.CountMainFrames,
                          CountCalibrationFrames |-> fileInfo.CountCalibrationFrames,
                          FileInfo |-> fileInfo, pixels |-> << >>,
                          frameInfo |-> NewAdvFrameInfo,
                          statusTagInfo |-> tags.list,
                          indexRequested |-> FALSE]]

\* rdr = Adv2reader(filename), kept in slot r when it does not raise
Construct(r, filename) ==
    /\ ~crashed
    /\ ~readers[r].constructed
    /\ LET out == Adv2readerInit(filename)
       IN  /\ libFile' = IF out.opened THEN LibOpenFile(filename).file ELSE libFile
           /\ libFrame' = IF out.opened THEN NoFrame ELSE libFrame
           /\ readers' = IF out.raised = "" THEN [readers EXCEPT ![r] = out.object]
                         ELSE readers
           /\ last' = [op |-> "construct", reader |-> r, file |-> filename,
                       raised |-> out.raised, probe |-> LibGetFileVersion(filename),
                       code |-> LibOpenFile(filename).code]
    /\ UNCHANGED <<held, crashed, disk, threads>>

----------------------------------------------------------------------------
(* _getGenericImageAndStatusData                                           *)

\* np.array(pixel_array, dtype='uint16'): each c_uint sample cast to 16 bits
ToUint16(seq) == [k \in DOMAIN seq |-> seq[k] % 65536]

\* np.reshape(..., newshape=(Height, Width)), row-major
Reshape(seq, height, width) ==
    [i \in 1..height |-> [j \in 1..width |-> seq[(i - 1) * width + j]]]

\* the c_uint buffer of n zeroed samples after the library wrote `written`
\* into it (what fits; a longer write runs past the buffer)
PixelArray(n, written) ==
    [k \in 1..n |-> IF k <= Len(written) THEN written[k] ELSE 0]

UnpackFrameInfoPartial(frameInfo, block) ==
    [frameInfo EXCEPT !.StartTicksHi = block.StartTicksHi,
                      !.UtcMidExposureTimestampLo = block.UtcMidExposureTimestampLo,
                      !.UtcMidExposureTimestampHi = block.UtcMidExposureTimestampHi,
                      !.Exposure = block.Exposure,
                      !.Gain = block.Gain,
                      !.ImageLayoutId = block.ImageLayoutId,
                      !.RawDataBlockSize = block.RawDataBlockSize]

\* AdvLib.AdvVer2_GetFramePixels unpacks the frame-info block into the
\* frameInfo object passed in; the two strings are not part of the block
UnpackFrameInfo(frameInfo, block) ==
    [frameInfo EXCEPT !.StartTicksLo = block.StartTicksLo,
                      !.StartTicksHi = block.StartTicksHi,
                      !.UtcMidExposureTimestampLo = block.UtcMidExposureTimestampLo,
                      !.UtcMidExposureTimestampHi = block.UtcMidExposureTimestampHi,
                      !.Exposure = block.Exposure,
                      !.Gain = block.Gain,
                      !.ImageLayoutId = block.ImageLayoutId,
                      !.RawDataBlockSize = block.RawDataBlockSize]

\* `if timedelta == 0:` compares the class datetime.timedelta with 0
NoTimestamp(frameInfo) == FALSE

\* the code block that adds DateString and StartOfExposureTimestampString
AddTimestampStrings(frameInfo) ==
    LET usecs == StartOfExposureUsecs(frameInfo.UtcMidExposureTimestampLo,
                                      frameInfo.UtcMidExposureTimestampHi,
                                      frameInfo.Exposure)
        ts == EpochPlus(usecs)
    IN  IF NoTimestamp(frameInfo)
        THEN [frameInfo EXCEPT !.DateString = "",
                               !.StartOfExposureTimestampString = ""]
        ELSE [frameInfo EXCEPT !.DateString = FormatDate(ts),
                               !.StartOfExposureTimestampString = FormatTime(ts)]

\* a reader that takes the SystemTime tag to count microseconds
SystemTimeStringOfMicros(val) ==
    LET ts == EpochPlus(Timedelta(<<0, 0, 0, 0, 0, val, 0>>))
    IN  FormatDate(ts) \o " " \o FormatTime(ts)

\* val_str of the SystemTime tag
SystemTimeString(val) ==
    LET ts == EpochPlus(Timedelta(Nanos(val)))
    IN  FormatDate(ts) \o " " \o FormatTime(ts)

\* the loop over self.statusTagInfo: list position i is the tag id asked of
\* the library; a raise of the string getter ends the call; reads: the
\* status-tag getters called
RECURSIVE ReadStatus(_, _, _, _, _)
ReadStatus(statusTagInfo, i, status_dict, file, frame) ==
    IF i >= Len(statusTagInfo) THEN [raised |-> "", dict |-> status_dict, reads |-> i]
    ELSE LET tagType == statusTagInfo[i + 1][1]
             tagName == statusTagInfo[i + 1][2]
             val == AdvVer2_GetStatusTagNumeric(file, frame, i, tagType)
             str == AdvVer2_GetStatusTagUTF8String(file, frame, i)
             entry == IF tagType = "UTF8String" THEN str.value
                      ELSE IF tagType = "Int64" /\ tagName = "SystemTime"
                      THEN SystemTimeString(val)
                      ELSE val
         IN  IF tagType = "UTF8String" /\ str.raised # ""
             THEN [raised |-> str.raised, dict |-> status_dict, reads |-> i + 1]
             ELSE ReadStatus(statusTagInfo, i + 1,
                             DictUpdate(status_dict, tagName, entry), file, frame)

ReturnFrameInfoCopy(r, frameInfo) == [kind |-> "copy", val |-> frameInfo]

\* `return ..., self.frameInfo, ...`: the reader's one AdvFrameInfo object
ReturnFrameInfo(r, frameInfo) == [kind |-> "ref", obj |-> r]

\* a reader that takes every result code but file-not-open for a success
FileIsNotOpen(ret_val) == ret_val = E_ADV_FILE_NOT_OPEN

\* `if ret_val is not S_OK:` (ret_val is the int the mask left; CPython
\* keeps one object for the int 0, so the identity test is the comparison)
IsNotS_OK(ret_val) == ret_val # S_OK

\* a reader that names the frame it was asked for in its error message
FrameErrorWithFrameNumber(ret_val, frameNumber) ==
    ResolveErrorMessage(ret_val) \o " (frame "
        \o (IF frameNumber < 0 THEN "-" \o Digit[1 - frameNumber]
            ELSE Digit[frameNumber + 1]) \o ")"

\* `if ret_val is not S_OK: err_msg = ResolveErrorMessage(ret_val)`: the
\* message is made of the result code alone
FrameError(ret_val, frameNumber) == ResolveErrorMessage(ret_val)

\* a reader that decodes every frame into one array it keeps
ReturnPixelsInPlace(r, pixels) == [kind |-> "ref", obj |-> r]

\* `self.pixels = np.reshape(np.array(pixel_array, ...))`, `return ...,
\* self.pixels, ...`: np.array copies the buffer of this call into a new
\* array, which the name self.pixels is bound to and which is returned
ReturnPixels(r, pixels) == [kind |-> "new", val |-> pixels]

\* what the client reads through a returned pixel array
ViewPixels(array) == IF array.kind = "ref" THEN readers[array.obj].pixels ELSE array.val

\* what the client reads through a returned frame record
View(record) == IF record.kind = "ref" THEN readers[record.obj].frameInfo ELSE record.val

FrameSourceOwnFile(r) == IF libFile = NoFile THEN NoFile ELSE readers[r].file

\* the file a call on reader r is served from: the binding passes no handle,
\* the library answers from its current file
FrameSource(r) == libFile

\* the whole of _getGenericImageAndStatusData(frameNumber, streamType) on
\* reader object rd, the library serving file: the object afterwards, the
\* library's current frame afterwards and the outcome
GetGeneric(r, rd, file, frame, streamType, frameNumber) ==
    LET lib == LibGetFramePixels(file, frame, streamType, frameNumber)
        pixels == Reshape(ToUint16(PixelArray(rd.Width * rd.Height, lib.pixels)),
                          rd.Height, rd.Width)
        unpacked == UnpackFrameInfo(rd.frameInfo, lib.block)
        stamped == AddTimestampStrings(unpacked)
        status == ReadStatus(rd.statusTagInfo, 0, EmptyDict, file, lib.frame)
        result(fi, raised, err_msg, dict, reads) ==
            [op |-> "getFrame", reader |-> r, stream |-> streamType,
             frameNumber |-> frameNumber, served |-> file, code |-> lib.code,
             raised |-> raised, err_msg |-> err_msg,
             pixels |-> IF raised = "" THEN pixels ELSE << >>,
             pixelArray |-> ReturnPixels(r, pixels),
             frameInfo |-> ReturnFrameInfo(r, fi), returned |-> fi,
             status |-> dict, statusReads |-> reads]
    IN  [overflow |-> Len(lib.pixels) > rd.Width * rd.Height,
         frame |-> lib.frame,
         object |-> [rd EXCEPT !.pixels = pixels,
                               !.frameInfo = IF IsNotS_OK(lib.code) THEN unpacked
                                             ELSE stamped],
         result |-> IF IsNotS_OK(lib.code)
                    THEN result(unpacked, "", FrameError(lib.code, frameNumber),
                                EmptyDict, 0)
                    ELSE result(stamped, status.raised, "", status.dict, status.reads)]

\* getMainImageAndStatusData / getCalibImageAndStatusData
GetFrame(r, streamType, frameNumber) ==
    /\ ~crashed
    /\ readers[r].constructed
    /\ LET out == GetGeneric(r, readers[r], FrameSource(r), libFrame, streamType, frameNumber)
       IN  /\ readers' = [readers EXCEPT ![r] = out.object]
           /\ libFrame' = out.frame
           /\ last' = out.result
    /\ UNCHANGED <<libFile, held, crashed, disk, threads>>

\* the library wrote more samples than the reader's buffer holds: the write
\* past the buffer may also end the process
GetFrameCrash(r, streamType, frameNumber) ==
    /\ ~crashed
    /\ readers[r].constructed
    /\ GetGeneric(r, readers[r], FrameSource(r), libFrame, streamType, frameNumber).overflow
    /\ crashed' = TRUE
    /\ UNCHANGED <<libFile, libFrame, readers, last, held, disk, threads>>

----------------------------------------------------------------------------
(* getAdvFileMetaData and closeFile                                        *)

\* for entryNum in range(count): ... if not err_msg: meta_dict.update(...)
RECURSIVE ReadTagPairs(_, _, _, _, _)
ReadTagPairs(file, table, count, entryNum, meta_dict) ==
    IF entryNum >= count THEN meta_dict
    ELSE LET p == LibGetTagPairValues(file, table, entryNum)
         IN  ReadTagPairs(file, table, count, entryNum + 1,
                          IF ~Truthy(p.code) THEN DictUpdate(meta_dict, p.name, p.value)
                          ELSE meta_dict)

getAdvFileMetaDataUserFirst(rd, file) ==
    ReadTagPairs(file, "SystemMetaData", rd.FileInfo.SystemMetadataTagsCount, 0,
        ReadTagPairs(file, "UserMetaData", rd.FileInfo.UserMetadataTagsCount, 0,
                     EmptyDict))

getAdvFileMetaData(rd, file) ==
    ReadTagPairs(file, "UserMetaData", rd.FileInfo.UserMetadataTagsCount, 0,
        ReadTagPairs(file, "SystemMetaData", rd.FileInfo.SystemMetadataTagsCount, 0,
                     EmptyDict))

GetAdvFileMetaData(r) ==
    /\ ~crashed
    /\ readers[r].constructed
    /\ last' = [op |-> "getAdvFileMetaData", reader |-> r, served |-> FrameSource(r),
                meta |-> getAdvFileMetaData(readers[r], FrameSource(r))]
    /\ UNCHANGED <<libFile, libFrame, readers, held, crashed, disk, threads>>

\* (c_int * n)(): n zeroed words, after the library wrote `written` into
\* them (what fits; a longer write runs past the buffer)
IndexBuffer(n, written) ==
    [k \in 1..n |-> IF k <= Len(written) THEN written[k] ELSE Word(0)]

\* mainIndex[i]: an element of a c_int array is read as a signed 32-bit value
CInt(word) == (IF word[1] >= 32768 THEN word[1] - 65536 ELSE word[1]) * 65536 + word[2]

\* the low 32 bits of a signed 32-bit value, as a word
LowWord(n) == <<(n \div 65536) % 65536, n % 65536>>

\* word - 1 modulo 2^32
WordMinusOne(word) ==
    IF word[2] > 0 THEN <<word[1], word[2] - 1>>
    ELSE IF word[1] > 0 THEN <<word[1] - 1, 65535>>
    ELSE <<65535, 65535>>

\* lo + (hi << 32) on Python's unbounded integers, lo and hi signed 32-bit
\* values: the result is top * 2^64 + hi * 2^32 + lo with hi and lo words
Shl32Add(lo, hi) ==
    [top |-> IF hi < 0 \/ (lo < 0 /\ hi = 0) THEN -1 ELSE 0,
     hi |-> IF lo < 0 THEN WordMinusOne(LowWord(hi)) ELSE LowWord(hi),
     lo |-> LowWord(lo)]

\* one AdvIndexEntry, read from the six-word slot at base
IndexEntry(buffer, base) ==
    [ElapsedTicks |-> Shl32Add(CInt(buffer[base + 1]), CInt(buffer[base + 2])),
     FrameOffset |-> Shl32Add(CInt(buffer[base + 3]), CInt(buffer[base + 4])),
     BytesCount |-> CInt(buffer[base + 5])]

\* one AdvIndexEntry per frame the reader counts; base += 6
IndexList(buffer, count) == [k \in 1..count |-> IndexEntry(buffer, 6 * (k - 1))]

\* a reader that kept the index of its file from its first request
getIndexEntriesCached(rd, file) ==
    LET own == IF rd.indexRequested THEN rd.file ELSE file
        lib == LibGetIndexEntries(own)
        mainIndex == IndexBuffer(6 * rd.CountMainFrames, lib.main)
        calibIndex == IndexBuffer(6 * rd.CountCalibrationFrames, lib.calib)
    IN  [overflow |-> FALSE,
         libRead |-> ~rd.indexRequested,
         raised |-> IF lib.code = S_OK THEN "" ELSE ResolveErrorMessage(lib.code),
         mainList |-> IF lib.code = S_OK THEN IndexList(mainIndex, rd.CountMainFrames)
                      ELSE << >>,
         calibList |-> IF lib.code = S_OK
                       THEN IndexList(calibIndex, rd.CountCalibrationFrames)
                       ELSE << >>]

\* getIndexEntries on reader object rd, the library serving file; libRead:
\* the call went to AdvLib.AdvVer2_GetIndexEntries
getIndexEntries(rd, file) ==
    LET lib == LibGetIndexEntries(file)
        mainIndex == IndexBuffer(6 * rd.CountMainFrames, lib.main)
        calibIndex == IndexBuffer(6 * rd.CountCalibrationFrames, lib.calib)
    IN  [overflow |-> \/ Len(lib.main) > 6 * rd.CountMainFrames
                      \/ Len(lib.calib) > 6 * rd.CountCalibrationFrames,
         libRead |-> TRUE,
         raised |-> IF lib.code = S_OK THEN "" ELSE ResolveErrorMessage(lib.code),
         mainList |-> IF lib.code = S_OK THEN IndexList(mainIndex, rd.CountMainFrames)
                      ELSE << >>,
         calibList |-> IF lib.code = S_OK
                       THEN IndexList(calibIndex, rd.CountCalibrationFrames)
                       ELSE << >>]

GetIndexEntries(r) ==
    /\ ~crashed
    /\ readers[r].constructed
    /\ LET out == getIndexEntries(readers[r], FrameSource(r))
       IN  last' = [op |-> "getIndexEntries", reader |-> r, served |-> FrameSource(r),
                    again |-> readers[r].indexRequested, libRead |-> out.libRead,
                    raised |-> out.raised, mainList |-> out.mainList,
                    calibList |-> out.calibList]
    /\ readers' = [readers EXCEPT ![r].indexRequested = TRUE]
    /\ UNCHANGED <<libFile, libFrame, held, crashed, disk, threads>>

\* the library wrote more index records than a buffer holds: the write past
\* the buffer may also end the process
GetIndexEntriesCrash(r) ==
    /\ ~crashed
    /\ readers[r].constructed
    /\ getIndexEntries(readers[r], FrameSource(r)).overflow
    /\ crashed' = TRUE
    /\ UNCHANGED <<libFile, libFrame, readers, last, held, disk, threads>>

\* @staticmethod closeFile(): AdvLib.AdvCloseFile() closes the library's file
CloseFile(r) ==
    /\ ~crashed
    /\ readers[r].constructed
    /\ libFile' = NoFile
    /\ libFrame' = NoFrame
    /\ last' = [op |-> "closeFile", reader |-> r, closed |-> libFile]
    /\ UNCHANGED <<readers, held, crashed, disk, threads>>

\* the client keeps the outcome of the getFrame call it has just made
Retain ==
    /\ ~crashed
    /\ last.op = "getFrame"
    /\ last.raised = ""
    /\ held # last
    /\ held' = last
    /\ UNCHANGED <<libFile, libFrame, readers, last, crashed, disk, threads>>

----------------------------------------------------------------------------
(* Two client threads inside _getGenericImageAndStatusData on the same     *)
(* reader (slot 1).  The interpreter may switch threads between any two    *)
(* statements (ctypes releases the lock around each library call); three   *)
(* switch points per call are modelled.                                    *)

Threads == {1, 2}

IdleThread == [pc |-> "idle"]

OtherThreadsDisturbed(t) ==
    [u \in Threads |->
        IF u # t /\ threads[u].pc \in {"called", "stamped"}
        THEN [threads[u] EXCEPT !.disturbed = TRUE]
        ELSE threads[u]]

\* lines 80-90: the library call, the unpacking into self.frameInfo, self.pixels
ThreadCall(t, streamType, frameNumber) ==
    /\ ~crashed
    /\ readers[1].constructed
    /\ threads[t].pc = "idle"
    /\ LET rd == readers[1]
           lib == LibGetFramePixels(FrameSource(1), libFrame, streamType, frameNumber)
       IN  /\ libFrame' = lib.frame
           /\ readers' = [readers EXCEPT ![1] =
                  [rd EXCEPT !.pixels = Reshape(ToUint16(PixelArray(rd.Width * rd.Height,
                                                                     lib.pixels)),
                                                rd.Height, rd.Width),
                             !.frameInfo = UnpackFrameInfo(rd.frameInfo, lib.block)]]
           /\ threads' = [OtherThreadsDisturbed(t) EXCEPT ![t] =
                  [pc |-> "called", stream |-> streamType, frameNumber |-> frameNumber,
                   code |-> lib.code, disturbed |-> FALSE]]
    /\ UNCHANGED <<libFile, last, held, crashed, disk>>

\* lines 92-114: the early return on an error, else the two strings are
\* computed from self.frameInfo and stored in it
ThreadStamp(t) ==
    /\ ~crashed
    /\ threads[t].pc = "called"
    /\ IF threads[t].code # S_OK
       THEN /\ readers' = readers
            /\ threads' = [threads EXCEPT ![t] =
                   [pc |-> "done", stream |-> threads[t].stream,
                    frameNumber |-> threads[t].frameNumber, code |-> threads[t].code,
                    disturbed |-> threads[t].disturbed,
                    raised |-> "", err_msg |-> ResolveErrorMessage(threads[t].code),
                    pixels |-> readers[1].pixels,
                    frameInfo |-> ReturnFrameInfo(1, readers[1].frameInfo),
                    returned |-> readers[1].frameInfo, status |-> EmptyDict]]
       ELSE /\ readers' = [readers EXCEPT ![1].frameInfo = AddTimestampStrings(@)]
            /\ threads' = [OtherThreadsDisturbed(t) EXCEPT ![t].pc = "stamped"]
    /\ UNCHANGED <<libFile, libFrame, last, held, crashed, disk>>

\* lines 118-147: the status tags of the library's current frame, the return
ThreadStatus(t) ==
    /\ ~crashed
    /\ threads[t].pc = "stamped"
    /\ LET status == ReadStatus(readers[1].statusTagInfo, 0, EmptyDict,
                                FrameSource(1), libFrame)
       IN  threads' = [threads EXCEPT ![t] =
               [pc |-> "done", stream |-> threads[t].stream,
                frameNumber |-> threads[t].frameNumber, code |-> threads[t].code,
                disturbed |-> threads[t].disturbed,
                raised |-> status.raised, err_msg |-> "",
                pixels |-> IF status.raised = "" THEN readers[1].pixels ELSE << >>,
                frameInfo |-> ReturnFrameInfo(1, readers[1].frameInfo),
                returned |-> readers[1].frameInfo, status |-> status.dict]]
    /\ UNCHANGED <<libFile, libFrame, readers, last, held, crashed, disk>>

\* the thread has used the outcome and is ready for another call
ThreadReset(t) ==
    /\ threads[t].pc = "done"
    /\ threads' = [threads EXCEPT ![t] = IdleThread]
    /\ UNCHANGED <<libFile, libFrame, readers, last, held, crashed, disk>>

----------------------------------------------------------------------------

Init ==
    /\ libFile = NoFile
    /\ libFrame = NoFrame
    /\ readers = [r \in Readers |-> NoReader]
    /\ last = NoResult
    /\ held = NoResult
    /\ crashed = FALSE
    /\ disk = OnDisk
    /\ threads = [t \in Threads |-> IdleThread]

\* files that open as version 2 monochrome files
GoodFiles == {"a.adv", "b.adv", "gap.adv"}

\* one reader, decoding frames of its file
Next ==
    \/ \E f \in GoodFiles : Construct(1, f)
    \/ \E s \in StreamIds, n \in FrameNumbers : GetFrame(1, s, n)
    \/ GetAdvFileMetaData(1)
    \/ GetIndexEntries(1)
    \/ CloseFile(1)
    \/ Retain

Spec == Init /\ [][Next]_vars

\* opening any file of the disk, in any reader slot
NextOpen ==
    \/ \E r \in Readers, f \in FileNames : Construct(r, f)
    \/ \E r \in Readers : CloseFile(r)

SpecOpen == Init /\ [][NextOpen]_vars

\* two readers, A and B, over the one library
Sharers == {1, 2}

NextShared ==
    \/ \E r \in Sharers, f \in {"a.adv", "b.adv"} : Construct(r, f)
    \/ \E r \in Sharers, s \in StreamIds, n \in FrameNumbers : GetFrame(r, s, n)
    \/ \E r \in Sharers, s \in StreamIds, n \in FrameNumbers : GetFrameCrash(r, s, n)
    \/ \E r \in Sharers : GetAdvFileMetaData(r)
    \/ \E r \in Sharers : GetIndexEntries(r)
    \/ \E r \in Sharers : GetIndexEntriesCrash(r)
    \/ \E r \in Sharers : CloseFile(r)

SpecShared == Init /\ [][NextShared]_vars

\* one reader used by two threads at once
NextThreads ==
    \/ \E f \in GoodFiles : Construct(1, f)
    \/ \E t \in Threads, s \in StreamIds, n \in FrameNumbers : ThreadCall(t, s, n)
    \/ \E t \in Threads : ThreadStamp(t)
    \/ \E t \in Threads : ThreadStatus(t)
    \/ \E t \in Threads : ThreadReset(t)

SpecThreads == Init /\ [][NextThreads]_vars

----------------------------------------------------------------------------
(* Helpers of the properties.                                              *)

\* the frame-info block held in an AdvFrameInfo record
BlockOf(fi) ==
    [StartTicksLo |-> fi.StartTicksLo, StartTicksHi |-> fi.StartTicksHi,
     UtcMidExposureTimestampLo |-> fi.UtcMidExposureTimestampLo,
     UtcMidExposureTimestampHi |-> fi.UtcMidExposureTimestampHi,
     Exposure |-> fi.Exposure, Gain |-> fi.Gain, ImageLayoutId |-> fi.ImageLayoutId,
     RawDataBlockSize |-> fi.RawDataBlockSize]

\* a getFrame call that returned its 4-tuple
Returned(x) == x.op = "getFrame" /\ x.raised = ""

\* a getFrame call that returned with an empty error message
Succeeded(x) == Returned(x) /\ x.err_msg = ""

SameRequest(x, y) ==
    /\ x.reader = y.reader /\ x.stream = y.stream /\ x.frameNumber = y.frameNumber
    /\ x.served = y.served

\* field for field the same 4-tuple (the frame record as it was on return)
SameOutcome(x, y) ==
    /\ x.raised = y.raised /\ x.err_msg = y.err_msg /\ x.pixels = y.pixels
    /\ x.returned = y.returned /\ x.status = y.status

\* frames of the stream recorded by the reader at construction
CountFrames(rd, stream) ==
    IF stream = "Main" THEN rd.CountMainFrames ELSE rd.CountCalibrationFrames

\* what the failed call must leave alone
Schema(rd) == <<rd.FileInfo, rd.Width, rd.Height, rd.CountMainFrames,
                rd.CountCalibrationFrames, rd.statusTagInfo>>

FrameMissingMessage ==
    "The requested frame cannot be located in the index. The file may be have been corrupted. Try rebuilding it."

----------------------------------------------------------------------------
(* C1: when UtcMidExposureTimestampLo + (UtcMidExposureTimestampHi << 32)  *)
(* is zero, a successful getFrame leaves DateString and                    *)
(* StartOfExposureTimestampString empty.  The code does not: the test      *)
(* `timedelta == 0` is never true, so a date is always rendered.           *)
C1_ZeroTimestampEmptyStrings ==
    (/\ Succeeded(last)
     /\ last.returned.UtcMidExposureTimestampLo = 0
     /\ last.returned.UtcMidExposureTimestampHi = 0)
    => (/\ last.returned.DateString = ""
        /\ last.returned.StartOfExposureTimestampString = "")

----------------------------------------------------------------------------
(* C2: with the reader's file open, a frame number outside                 *)
(* [0, CountXFrames) of the requested stream makes getFrame return the     *)
(* frame-missing-from-index message; the failed call leaves FileInfo,      *)
(* Width, Height, the frame counts and statusTagInfo as they were; and a   *)
(* call for a valid frame number made right after it has the outcome the   *)
(* same request had before the failed call.                                *)
OutOfRange(x) ==
    /\ x.op = "getFrame"
    /\ x.served = readers[x.reader].file
    /\ (x.frameNumber < 0 \/ x.frameNumber >= CountFrames(readers[x.reader], x.stream))

C2_FailsWithFrameMissing ==
    OutOfRange(last) => /\ last.raised = ""
                        /\ last.err_msg = FrameMissingMessage
                        /\ last.status = EmptyDict

C2_SchemaUntouched ==
    (last'.op = "getFrame" /\ last'.code = E_ADV_FRAME_MISSING_FROM_INDEX)
    => Schema(readers'[last'.reader]) = Schema(readers[last'.reader])

C2_NextValidCallUnaffected ==
    (/\ OutOfRange(last)
     /\ last'.op = "getFrame" /\ last'.code = S_OK
     /\ Returned(held) /\ SameRequest(held, last'))
    => SameOutcome(held, last')

C2_FrameNotInIndex ==
    /\ []C2_FailsWithFrameMissing
    /\ [][C2_SchemaUntouched]_vars
    /\ [][C2_NextValidCallUnaffected]_vars

\* a failed out-of-range call made after a kept successful call
C2_Witness ==
    /\ OutOfRange(last) /\ last.code = E_ADV_FRAME_MISSING_FROM_INDEX
    /\ Succeeded(held) /\ held.served = last.served

----------------------------------------------------------------------------
(* C3 as claimed: the frame record returned by a getFrame call keeps the   *)
(* values it had on return, whatever getFrame calls follow.                *)
C3_RecordKeepsItsValues ==
    Returned(held) => View(held.frameInfo) = held.returned

(* C3 as the code has it: every getFrame call of a reader returns the      *)
(* reader's one AdvFrameInfo object, so after a later getFrame call on the *)
(* same reader a record returned earlier shows the values that later call  *)
(* left in it.                                                             *)
C3_RecordIsShared ==
    (Returned(held) /\ last.op = "getFrame" /\ last.reader = held.reader)
    => View(held.frameInfo) = last.returned

\* a kept record and a later call that wrote other values
C3_Witness ==
    /\ Returned(held) /\ last.op = "getFrame" /\ last.reader = held.reader
    /\ held.returned # last.returned

----------------------------------------------------------------------------
(* C4 as claimed: a tag for which the library reports                      *)
(* status-tag-not-found-in-frame has no entry in the status map.           *)
NotFoundInFrame(x, i) ==
    LibGetStatusTag(x.served, [loaded |-> TRUE, stream |-> x.stream,
                               frameNo |-> x.frameNumber],
                    i - 1, readers[x.reader].statusTagInfo[i][1]).code
        = E_ADV_STATUS_TAG_NOT_FOUND_IN_FRAME

C4_AbsentTagHasNoEntry ==
    Succeeded(last) =>
        \A i \in 1..Len(readers[last.reader].statusTagInfo) :
            NotFoundInFrame(last, i)
            => readers[last.reader].statusTagInfo[i][2] \notin DOMAIN last.status

(* C4 as the code has it: such a tag gets an entry under its name, holding *)
(* a placeholder: -1 for Int8, Int16, Int32, Int64 and Real (rendered as   *)
(* the instant one microsecond before the epoch for the Int64 tag named    *)
(* SystemTime), the empty string for UTF8String.                           *)
C4_AbsentTagHasPlaceholder ==
    Succeeded(last) =>
        \A i \in 1..Len(readers[last.reader].statusTagInfo) :
            LET tagType == readers[last.reader].statusTagInfo[i][1]
                tagName == readers[last.reader].statusTagInfo[i][2]
            IN  NotFoundInFrame(last, i)
                => /\ tagName \in DOMAIN last.status
                   /\ last.status[tagName] =
                        IF tagType = "UTF8String" THEN ""
                        ELSE IF tagType = "Int64" /\ tagName = "SystemTime"
                        THEN "2009-12-31 [23:59:59.999999]"
                        ELSE -1

\* a decoded frame in which a tag of every type is missing
C4_Witness ==
    /\ Succeeded(last)
    /\ \A type \in Adv2TagTypes :
          \E i \in 1..Len(readers[last.reader].statusTagInfo) :
              /\ readers[last.reader].statusTagInfo[i][1] = type
              /\ NotFoundInFrame(last, i)

----------------------------------------------------------------------------
(* C7: two getFrame calls with the same stream and frame number on the     *)
(* same reader and the same open file return the same error message,       *)
(* pixels, frame record and status map.  The code breaks this for failed   *)
(* calls: they leave the two strings of the shared record as the last      *)
(* successful call set them.                                               *)
C7_RepeatedCallsAgree ==
    (/\ Returned(held) /\ Returned(last)
     /\ SameRequest(held, last) /\ last.served # NoFile)
    => SameOutcome(held, last)

----------------------------------------------------------------------------
(* What a call on a reader returns when it is served from file f.          *)

FileNotOpenMessage == "File system file is not open."

\* the samples of a frame as they land in a reader's Height x Width array
PixelsOf(rd, fr) ==
    [i \in 1..rd.Height |->
        [j \in 1..rd.Width |->
            LET k == (i - 1) * rd.Width + j
            IN  IF k <= Len(fr.pixels) THEN fr.pixels[k] % 65536 ELSE 0]]

\* getFrame outcome x carries the frame of file f that the request names
FrameServedFrom(x, f) ==
    IF f = NoFile THEN x.err_msg = FileNotOpenMessage
    ELSE IF x.frameNumber < 0 \/ x.frameNumber >= Len(disk[f].frames[x.stream])
    THEN x.err_msg = FrameMissingMessage
    ELSE LET fr == disk[f].frames[x.stream][x.frameNumber + 1]
         IN  /\ x.err_msg = ""
             /\ BlockOf(x.returned) = fr.block
             /\ x.raised = "" => x.pixels = PixelsOf(readers[x.reader], fr)

\* the first n pairs of a metadata table as a set
FirstPairs(table, n) == {table[k] : k \in {k \in DOMAIN table : k <= n}}

\* getAdvFileMetaData outcome x carries the metadata of file f, as far as
\* the reader's two counts reach; a user entry replaces a system entry
MetaServedFrom(x, f) ==
    LET info == readers[x.reader].FileInfo
        sys == IF f = NoFile THEN {} ELSE FirstPairs(disk[f].sysMeta, info.SystemMetadataTagsCount)
        user == IF f = NoFile THEN {} ELSE FirstPairs(disk[f].userMeta, info.UserMetadataTagsCount)
    IN  /\ DOMAIN x.meta = {p[1] : p \in sys \cup user}
        /\ \A p \in user : x.meta[p[1]] = p[2]
        /\ \A p \in sys : (\A q \in user : q[1] # p[1]) => x.meta[p[1]] = p[2]

\* getIndexEntries outcome x carries the index of file f, in as many entries
\* as the reader counts frames
IndexServedFrom(x, f) ==
    IF f = NoFile THEN x.raised = FileNotOpenMessage
    ELSE LET rd == readers[x.reader]
             entry(stream, k) ==
                 IF k <= Len(disk[f].index[stream])
                 THEN IndexEntry(disk[f].index[stream][k], 0)
                 ELSE IndexEntry(Slot(Word(0), Word(0), Word(0), Word(0), Word(0)), 0)
         IN  /\ x.raised = ""
             /\ x.mainList = [k \in 1..rd.CountMainFrames |-> entry("Main", k)]
             /\ x.calibList = [k \in 1..rd.CountCalibrationFrames |-> entry("Calibration", k)]

ServedFrom(x, f) ==
    /\ x.op = "getFrame" => FrameServedFrom(x, f)
    /\ x.op = "getAdvFileMetaData" => MetaServedFrom(x, f)
    /\ x.op = "getIndexEntries" => IndexServedFrom(x, f)

----------------------------------------------------------------------------
(* C5 as claimed: every getFrame, getIndexEntries and getAdvFileMetaData   *)
(* call on a reader returns data of the file that reader was constructed   *)
(* on, whatever was done with other readers (constructing, reading,        *)
(* closing) in between.                                                    *)
C5_ReadersDoNotInterfere ==
    last.op \in {"getFrame", "getAdvFileMetaData", "getIndexEntries"}
    => ServedFrom(last, readers[last.reader].file)

(* C5 as the code has it: the library holds one open file for all readers. *)
(* Every such call returns data of the file opened by the most recent      *)
(* construction that reached AdvOpenFile, laid out by the calling reader's *)
(* own dimensions and counts, and after closeFile on any reader every      *)
(* reader gets the file-not-open error (an empty map from                  *)
(* getAdvFileMetaData).                                                    *)
C5_OneFileForAllReaders ==
    /\ last.op \in {"getFrame", "getAdvFileMetaData", "getIndexEntries"}
       => ServedFrom(last, libFile)
    /\ last.op = "closeFile" => libFile = NoFile
    /\ (last.op = "construct" /\ last.code = Ver(2)) => libFile = last.file

\* a frame decoded for a reader out of another reader's file
C5_Witness ==
    /\ last.op = "getFrame" /\ last.code = S_OK
    /\ libFile # readers[last.reader].file
    /\ \E r \in Sharers : readers[r].constructed /\ readers[r].file = libFile
    /\ ~FrameServedFrom(last, readers[last.reader].file)

----------------------------------------------------------------------------
(* C6 as claimed: when two getFrame calls on the same reader are           *)
(* interleaved, each call returns the frame-info fields, the timestamp     *)
(* strings and the status-tag values of its own frame.                     *)
OwnFrameData(t) ==
    LET x == threads[t]
        f == readers[1].file
        fr == disk[f].frames[x.stream][x.frameNumber + 1]
        ts == EpochPlus(StartOfExposureUsecs(fr.block.UtcMidExposureTimestampLo,
                                             fr.block.UtcMidExposureTimestampHi,
                                             fr.block.Exposure))
        own == ReadStatus(readers[1].statusTagInfo, 0, EmptyDict, f,
                          [loaded |-> TRUE, stream |-> x.stream, frameNo |-> x.frameNumber])
    IN  /\ BlockOf(x.returned) = fr.block
        /\ x.returned.DateString = FormatDate(ts)
        /\ x.returned.StartOfExposureTimestampString = FormatTime(ts)
        /\ x.status = own.dict
        /\ x.raised = own.raised

Decoded(t) == threads[t].pc = "done" /\ threads[t].code = S_OK

----------------------------------------------------------------------------
(* C8: constructing a reader on a file whose descriptor has IsColourImage  *)
(* set raises the colour-unsupported error, and no reader object exists on *)
(* such a file, whatever the other descriptor fields are.                  *)
ColourFile(f) == LibOpenFile(f).code = Ver(2) /\ LibOpenFile(f).info.IsColourImage

C8_ColourFileRejected ==
    /\ (last.op = "construct" /\ last.probe = Ver(2) /\ ColourFile(last.file))
       => /\ last.raised = "This file contains color images: not yet supported."
          /\ ~readers[last.reader].constructed
    /\ \A r \in Readers : readers[r].constructed => ~ColourFile(readers[r].file)

\* the rejected construction on a colour file
C8_Witness ==
    /\ last.op = "construct" /\ ColourFile(last.file) /\ last.raised # ""
    /\ \E r \in Readers : readers[r].constructed

----------------------------------------------------------------------------
(* C9: a construction that fails at any step raises, produces no reader    *)
(* object, and leaves the library with no file open on its behalf.  The    *)
(* code raises after AdvOpenFile succeeded without calling AdvCloseFile.   *)
C9_FailedOpenLeavesNothingOpen ==
    (last.op = "construct" /\ last.raised # "")
    => /\ ~readers[last.reader].constructed
       /\ libFile # last.file

----------------------------------------------------------------------------
(* C10: construction succeeds only if the version probe returns 2 and      *)
(* AdvOpenFile returns 2; every other probe or open result raises, and a   *)
(* probed version other than 0 and 2 raises the unsupported-version error  *)
(* that names it.                                                          *)
C10_OnlyVersionTwoOpens ==
    (last.op = "construct" /\ disk[last.file].exists) =>
        /\ last.raised = "" => (last.probe = Ver(2) /\ last.code = Ver(2))
        /\ (last.probe # Ver(2) \/ last.code # Ver(2))
           => (last.raised # "" /\ ~readers[last.reader].constructed)
        /\ last.probe \notin {Ver(0), Ver(2)}
           => last.raised = "ADV version " \o DecStr(last.probe)
                            \o " is unsupported --- only version 2 is supported"

\* a construction refused for a probed version of 3
C10_Witness ==
    /\ last.op = "construct" /\ last.probe = Ver(3)
    /\ last.raised = "ADV version 3 is unsupported --- only version 2 is supported"

----------------------------------------------------------------------------
(* C11: getAdvFileMetaData reads the system pairs in entry order, then the *)
(* user pairs in entry order; every name maps to the value of the last     *)
(* pair read successfully under that name, so a name of both tables maps   *)
(* to the user table's value.                                              *)

\* the pairs the library delivers, in the order the reader asks for them
PairsRead(rd, f) ==
    LET sys == disk[f].sysMeta
        user == disk[f].userMeta
        upto(table, count) ==
            SubSeq(table, 1, IF count < Len(table) THEN count ELSE Len(table))
    IN  upto(sys, rd.FileInfo.SystemMetadataTagsCount)
        \o upto(user, rd.FileInfo.UserMetadataTagsCount)

C11_MetadataLastWriteWins ==
    (last.op = "getAdvFileMetaData" /\ last.served # NoFile) =>
        LET pairs == PairsRead(readers[last.reader], last.served)
        IN  /\ DOMAIN last.meta = {pairs[i][1] : i \in DOMAIN pairs}
            /\ \A i \in DOMAIN pairs :
                  (\A j \in DOMAIN pairs : j > i => pairs[j][1] # pairs[i][1])
                  => last.meta[pairs[i][1]] = pairs[i][2]

\* a name repeated within the system table, a name of both tables, and a
\* user entry the library could not read
C11_Witness ==
    /\ last.op = "getAdvFileMetaData" /\ last.served = "gap.adv"
    /\ last.meta = [DUP |-> "2", CAM |-> "u", OBS |-> "x"]
    /\ readers[last.reader].FileInfo.UserMetadataTagsCount > Len(disk["gap.adv"].userMeta)

----------------------------------------------------------------------------
(* C12 as claimed: the index is built by the first getIndexEntries call of *)
(* a reader; every later call on that reader returns it without another    *)
(* index read of the library.                                              *)
C12_IndexReadOnce ==
    (last.op = "getIndexEntries" /\ last.again) => ~last.libRead

(* C12 as the code has it: nothing is kept.  Every getIndexEntries call    *)
(* reads the index from the library again and builds new lists from the    *)
(* library's current file; once closeFile has been called it raises the    *)
(* file-not-open error, also on a reader that returned the index before.   *)
C12_IndexReadEveryCall ==
    last.op = "getIndexEntries"
    => /\ last.libRead
       /\ IndexServedFrom(last, libFile)
       /\ libFile = NoFile => last.raised = FileNotOpenMessage

\* a repeated index request, made after closeFile, that raised
C12_Witness ==
    /\ last.op = "getIndexEntries" /\ last.again
    /\ libFile = NoFile /\ last.raised # ""

----------------------------------------------------------------------------
(* The index of a reader's own file, as the index table holds it.          *)

\* lo + (hi << 32) for the two halves taken as unsigned 32-bit words
Unsigned64(lo, hi) == [top |-> 0, hi |-> hi, lo |-> lo]

IndexRead(x) ==
    /\ x.op = "getIndexEntries" /\ x.raised = ""
    /\ x.served = readers[x.reader].file

\* the list holds one entry per index record, in frame order, with the
\* values of the record
ListAsStored(list, records) ==
    /\ Len(list) = Len(records)
    /\ \A k \in DOMAIN records :
          /\ list[k].ElapsedTicks = Unsigned64(records[k][1], records[k][2])
          /\ list[k].FrameOffset = Unsigned64(records[k][3], records[k][4])
          /\ LowWord(list[k].BytesCount) = records[k][5]

(* C13: getIndexEntries returns CountMainFrames main and                   *)
(* CountCalibrationFrames calibration entries in frame order; in entry k   *)
(* ElapsedTicks and FrameOffset are lo + (hi << 32) of the record's halves *)
(* taken as unsigned 32-bit words, so they lie in [0, 2^64), and           *)
(* BytesCount is the fifth word.  The code reads the halves through a      *)
(* c_int array, as signed values.                                          *)
C13_IndexEntriesUnsigned ==
    IndexRead(last) =>
        /\ Len(last.mainList) = readers[last.reader].CountMainFrames
        /\ Len(last.calibList) = readers[last.reader].CountCalibrationFrames
        /\ ListAsStored(last.mainList, disk[last.served].index.Main)
        /\ ListAsStored(last.calibList, disk[last.served].index.Calibration)

----------------------------------------------------------------------------
\* x <= y for two integers held as top * 2^64 + hi * 2^32 + lo
PyLeq(x, y) ==
    \/ x.top < y.top
    \/ x.top = y.top /\ CodeGreater(y.hi, x.hi)
    \/ x.top = y.top /\ x.hi = y.hi /\ ~CodeGreater(x.lo, y.lo)

\* the index table holds non-decreasing unsigned 64-bit tick counts
WellFormedTicks(records) ==
    \A k \in 1..(Len(records) - 1) :
        PyLeq(Unsigned64(records[k][1], records[k][2]),
              Unsigned64(records[k + 1][1], records[k + 1][2]))

NonDecreasingTicks(list) ==
    \A k \in 1..(Len(list) - 1) : PyLeq(list[k].ElapsedTicks, list[k + 1].ElapsedTicks)

(* C14: for a file whose index table holds non-decreasing tick counts, the *)
(* ElapsedTicks of consecutive entries of each list returned by            *)
(* getIndexEntries are non-decreasing, also when the low half of the count *)
(* passes 2^31 or wraps past 2^32 between two frames.  The signed read of  *)
(* the halves (C13) breaks this when the low half passes 2^31.             *)
C14_TicksNonDecreasing ==
    (/\ IndexRead(last)
     /\ WellFormedTicks(disk[last.served].index.Main)
     /\ WellFormedTicks(disk[last.served].index.Calibration))
    => (NonDecreasingTicks(last.mainList) /\ NonDecreasingTicks(last.calibList))

----------------------------------------------------------------------------
(* C15: for a decoded frame, DateString and StartOfExposureTimestampString *)
(* are the YYYY-MM-DD and [HH:MM:SS.mmmmmm] renderings of 2010-01-01       *)
(* 00:00:00 plus floor((Lo + (Hi << 32) - floor(Exposure / 2)) / 1000)     *)
(* microseconds.  StartOfExposure holds that instant for each frame of the *)
(* files, worked out outside the model with the calendar of CPython.       *)
StartOfExposure ==
    ("a.adv" :> [Main |-> << <<"2010-01-01", "[00:00:00.001000]">>,
                             <<"2010-01-01", "[00:00:00.000000]">> >>,
                 Calibration |-> << >>])
    @@ ("b.adv" :> [Main |-> << <<"2009-12-31", "[23:59:59.999998]">> >>,
                    Calibration |-> << <<"2024-02-29", "[23:59:59.999999]">> >>])

----------------------------------------------------------------------------
(* C16: a call that decodes a frame returns an array of Height rows of     *)
(* Width samples each, the sample of row i and column j being the sample   *)
(* the library delivered at row-major position (i - 1) * Width + j (as     *)
(* far as the 16 bits kept of it), and the array is new: an array the      *)
(* client has kept from an earlier call still reads as it did when it was  *)
(* returned, whatever calls came later.                                    *)

\* the samples the library holds for the frame a call asked for
Delivered(x) == disk[x.served].frames[x.stream][x.frameNumber + 1].pixels

HeightByWidth(array, rd, samples) ==
    /\ DOMAIN array = 1..rd.Height
    /\ \A i \in 1..rd.Height :
        /\ DOMAIN array[i] = 1..rd.Width
        /\ \A j \in 1..rd.Width :
            array[i][j] % 65536 = samples[(i - 1) * rd.Width + j] % 65536

C16_FreshHeightByWidthArray ==
    /\ (Succeeded(last) /\ last.code = S_OK)
       => HeightByWidth(ViewPixels(last.pixelArray), readers[last.reader], Delivered(last))
    /\ Returned(held) => ViewPixels(held.pixelArray) = held.pixels

\* an array kept from one frame, after a later call decoded another frame
C16_Witness ==
    /\ Succeeded(held) /\ Succeeded(last) /\ last.reader = held.reader
    /\ held.code = S_OK /\ last.code = S_OK
    /\ last.pixels # held.pixels
    /\ ViewPixels(held.pixelArray) = held.pixels
    /\ ViewPixels(held.pixelArray) # readers[held.reader].pixels

----------------------------------------------------------------------------
(* C17: in a decoded frame, the entry of an Int64 tag named SystemTime is  *)
(* the date and time of day of 2010-01-01T00:00:00 plus floor(v / 1000)    *)
(* microseconds, v being the value the library returned for the tag; the   *)
(* entry of every other Int64 tag is the value the library returned.       *)

\* f'{ts.year:04d}-... [...]' of datetime(2010, 1, 1) +
\* timedelta(microseconds=v // 1000), as CPython computes it
SystemTimeRendered == (2147483647 :> "2010-01-01 [00:00:02.147483]")

\* the library's answer to the Int64 read of the tag at list position i
Int64Read(x, i) ==
    LibGetStatusTag(x.served, [loaded |-> TRUE, stream |-> x.stream,
                               frameNo |-> x.frameNumber], i - 1, "Int64")

C17_SystemTimeRendered ==
    (Succeeded(last) /\ last.code = S_OK) =>
        \A i \in 1..Len(readers[last.reader].statusTagInfo) :
            LET tagType == readers[last.reader].statusTagInfo[i][1]
                tagName == readers[last.reader].statusTagInfo[i][2]
                v == Int64Read(last, i).value
            IN  (tagType = "Int64" /\ Int64Read(last, i).code = S_OK)
                => /\ tagName \in DOMAIN last.status
                   /\ last.status[tagName] =
                        IF tagName = "SystemTime" THEN SystemTimeRendered[v] ELSE v

\* a decoded frame with a SystemTime that is no whole number of
\* microseconds, and another Int64 tag
C17_Witness ==
    /\ Succeeded(last) /\ last.code = S_OK
    /\ \E i, j \in 1..Len(readers[last.reader].statusTagInfo) :
          /\ readers[last.reader].statusTagInfo[i] = <<"Int64", "SystemTime">>
          /\ Int64Read(last, i).code = S_OK
          /\ Int64Read(last, i).value = 2147483647
          /\ readers[last.reader].statusTagInfo[j] = <<"Int64", "Ticks">>
          /\ Int64Read(last, j).code = S_OK
          /\ last.status["Ticks"] = 5
    /\ last.status["SystemTime"] = "2010-01-01 [00:00:02.147483]"

----------------------------------------------------------------------------
(* C18 as claimed: the error value of a failed frame request identifies the *)
(* frame number asked for, so two failed requests with the same error code  *)
(* for different frame numbers return different error values.               *)

\* a getFrame call that returned with an error message
Failed(x) == Returned(x) /\ x.code # S_OK

C18_ErrorNamesFrameNumber ==
    (/\ Failed(held) /\ Failed(last)
     /\ held.code = last.code /\ held.frameNumber # last.frameNumber)
    => held.err_msg # last.err_msg

(* C18 as the code has it: the error value is the message text of the       *)
(* library's result code and nothing else, so two failed requests with the  *)
(* same error code return the same error value, whatever frame numbers they *)
(* asked for.                                                               *)
C18_ErrorIsTextOfCode ==
    /\ Failed(last)
       => /\ last.code \in {E_ADV_FRAME_MISSING_FROM_INDEX, E_ADV_FILE_NOT_OPEN}
          /\ last.err_msg = IF last.code = E_ADV_FRAME_MISSING_FROM_INDEX
                            THEN FrameMissingMessage ELSE FileNotOpenMessage
    /\ (Failed(held) /\ Failed(last) /\ held.code = last.code)
       => held.err_msg = last.err_msg

\* two requests for different frames that are not in the index
C18_Witness ==
    /\ Failed(held) /\ Failed(last)
    /\ held.code = E_ADV_FRAME_MISSING_FROM_INDEX
    /\ last.code = E_ADV_FRAME_MISSING_FROM_INDEX
    /\ held.reader = last.reader /\ held.stream = last.stream
    /\ held.frameNumber # last.frameNumber
    /\ held.err_msg = last.err_msg

----------------------------------------------------------------------------
(* C19: in a decoded frame, the entry stored under a non-empty tag name of *)
(* the schema is the value the library holds for the tag id at which the   *)
(* name is declared (for a tag the frame has, and leaving the rendered     *)
(* SystemTime aside), also when unused slots come before it.  The code     *)
(* breaks this: the constructor drops the unused slots from its list and   *)
(* the frame reader asks the library for the list position, not the tag id.*)

\* the tag declared at tag id tagId in the file a call was served from
Declared(x, tagId) == disk[x.served].schema[tagId + 1]

\* what the library holds for tag id tagId in the frame the call asked for
HeldForTag(x, tagId) ==
    disk[x.served].frames[x.stream][x.frameNumber + 1].tags[tagId + 1]

C19_StatusReadByTagId ==
    (Succeeded(last) /\ last.code = S_OK) =>
        \A tagId \in 0..(Len(disk[last.served].schema) - 1) :
            (/\ Declared(last, tagId).name \notin {"", "SystemTime"}
             /\ HeldForTag(last, tagId).present)
            => /\ Declared(last, tagId).name \in DOMAIN last.status
               /\ last.status[Declared(last, tagId).name] = HeldForTag(last, tagId).value

----------------------------------------------------------------------------
(* C20: every sample of the array a decoded frame returns equals the       *)
(* unsigned sample the library delivered for that pixel, samples above     *)
(* 65535 included.  The code breaks this: it receives the samples in a     *)
(* buffer of 32-bit unsigned integers and stores them as uint16, which     *)
(* keeps the low 16 bits only.                                             *)
C20_PixelsWithoutLoss ==
    (Succeeded(last) /\ last.code = S_OK) =>
        \A i \in 1..readers[last.reader].Height, j \in 1..readers[last.reader].Width :
            ViewPixels(last.pixelArray)[i][j]
                = Delivered(last)[(i - 1) * readers[last.reader].Width + j]

----------------------------------------------------------------------------
(* C21: the 4-tuple a getFrame call returns has an empty error message     *)
(* exactly when the library call returned S_OK.  When the library call     *)
(* returned another code, the message is not empty, the status map is      *)
(* empty, no status-tag getter was called, and the call left the date and  *)
(* time strings of the reader's frame record as they were before it.       *)

\* DateString and StartOfExposureTimestampString of a frame record
Strings(fi) == <<fi.DateString, fi.StartOfExposureTimestampString>>

C21_MessageEmptyExactlyOnS_OK ==
    Returned(last) =>
        /\ (last.err_msg = "") <=> (last.code = S_OK)
        /\ last.code # S_OK => /\ last.status = EmptyDict
                               /\ last.statusReads = 0

C21_StringsNotRecomputed ==
    (Returned(last') /\ last'.code # S_OK)
    => /\ Strings(readers'[last'.reader].frameInfo)
            = Strings(readers[last'.reader].frameInfo)
       /\ Strings(last'.returned) = Strings(readers[last'.reader].frameInfo)

C21_ResultEncodesOutcome ==
    /\ []C21_MessageEmptyExactlyOnS_OK
    /\ [][C21_StringsNotRecomputed]_vars

\* a failed call made after a kept decoded frame: the strings of the record
\* are still those of the decoded frame, which read its status tags
C21_Witness ==
    /\ Succeeded(held) /\ held.code = S_OK /\ held.statusReads > 0
    /\ Strings(held.returned) # <<"", "">>
    /\ Failed(last) /\ last.reader = held.reader
    /\ last.err_msg # "" /\ last.status = EmptyDict /\ last.statusReads = 0
    /\ Strings(View(last.frameInfo)) = Strings(held.returned)

====
